---- MODULE Spec2Model ----
(***************************************************************************)
(* Model of transcode.py: a pool of worker threads that claim lines of a   *)
(* shared job list through per-file marker files and run each claimed file *)
(* through the probe / backup / encode / commit-or-rollback pipeline.      *)
(*                                                                         *)
(* Text (list lines, paths, probe output) is a sequence of one-character   *)
(* strings, so that strip / lstrip / lower / join are computed.  Python's  *)
(* None is the empty sequence where the code only tests truthiness.        *)
(*                                                                         *)
(* Fault model: the probe and the encoder may exit non-zero or fail to     *)
(* start, marker creation may fail with an error other than "exists", and  *)
(* the backup, commit and rollback renames and the backup deletion may     *)
(* fail.  Reads and writes of the list file, appends to the failure log,   *)
(* removal of a marker and removal of the temporary output succeed.        *)
(***************************************************************************)
EXTENDS Integers, Sequences, FiniteSets, TLC

\* ------------------------------------------------------------------ bounds
NumWorkers == 2
MaxLines == 2

Workers == 1..NumWorkers

\* ------------------------------------------------------------------- text
Whitespace == {" ", "\n"}
UpperCase == <<"H", "E", "V", "C", "M", "P", "G">>
LowerCase == <<"h", "e", "v", "c", "m", "p", "g">>

RECURSIVE LStrip(_, _)
LStrip(s, chars) ==
    IF s # <<>> /\ Head(s) \in chars THEN LStrip(Tail(s), chars) ELSE s

RECURSIVE RStrip(_, _)
RStrip(s, chars) ==
    IF s # <<>> /\ s[Len(s)] \in chars
    THEN RStrip(SubSeq(s, 1, Len(s) - 1), chars)
    ELSE s

Strip(s, chars) == RStrip(LStrip(s, chars), chars)

LowerChar(c) ==
    IF \E i \in 1..Len(UpperCase) : UpperCase[i] = c
    THEN LowerCase[CHOOSE i \in 1..Len(UpperCase) : UpperCase[i] = c]
    ELSE c

Lower(s) == [i \in 1..Len(s) |-> LowerChar(s[i])]

StartsWith(s, prefix) ==
    Len(s) >= Len(prefix) /\ SubSeq(s, 1, Len(prefix)) = prefix

\* os.path.join for two components
Join(a, b) ==
    IF b # <<>> /\ Head(b) = "/" THEN b
    ELSE IF a = <<>> \/ a[Len(a)] = "/" THEN a \o b
    ELSE a \o <<"/">> \o b

LastSlash(p) ==
    IF \E i \in 1..Len(p) : p[i] = "/"
    THEN CHOOSE i \in 1..Len(p) : p[i] = "/" /\ \A j \in (i+1)..Len(p) : p[j] # "/"
    ELSE 0

Dirname(p) ==
    LET i == LastSlash(p)
        head == SubSeq(p, 1, i)
    IN  IF head # <<>> /\ \E k \in 1..Len(head) : head[k] # "/"
        THEN RStrip(head, {"/"})
        ELSE head

Basename(p) == SubSeq(p, LastSlash(p) + 1, Len(p))

\* ---------------------------------------------------------- configuration
base_path == <<"/", "d", "a", "t", "a">>

inefficient_codecs == { <<"h", "2", "6", "4">>,
                        <<"m", "p", "e", "g", "4">>,
                        <<"v", "c", "1">> }

\* codec written by the encoder (-c:v hevc_nvenc)
EncodedStdout == <<"h", "e", "v", "c", "\n">>

\* what the probe can print for an original file: an inefficient codec, an
\* efficient one, nothing
ProbeStdouts == { <<"H", "2", "6", "4", "\n">>,
                  EncodedStdout,
                  <<"\n">> }

\* lines the scanner may have put in the list: two spellings of one file,
\* a second file, and a blank line
LineTexts == { <<"a">>,
               <<"\"", "/", "a", "\"">>,
               <<"'", "b", "'">>,
               <<" ">> }

\* ------------------------------------------------------------------ paths
\* lines 94-95: strip quotes, strip leading separators, join onto the base
rel_clean(rel) == Strip(Strip(rel, {"\""}), {"'"})
full_path(rel) == Join(base_path, LStrip(rel_clean(rel), {"/"}))

\* line 52
LockPath(path) == path \o <<".transcode.lock">>
\* line 144
backup_path(path) == path \o <<".old">>
\* lines 142-145
temp_output(path) ==
    Join(Dirname(path), <<".">> \o Basename(path) \o <<".tmp.mkv">>)

\* lines 217-219: the path the failure log gets
RelativePath(job) ==
    LET root == RStrip(base_path, {"/"})
    IN  IF StartsWith(job, root \o <<"/">>)
        THEN SubSeq(job, Len(root) + 2, Len(job))
        ELSE job

\* line 79: the non-blank lines, trimmed
RECURSIVE NonBlank(_)
NonBlank(file) ==
    IF file = <<>> THEN <<>>
    ELSE IF Strip(Head(file), Whitespace) # <<>>
         THEN <<Strip(Head(file), Whitespace)>> \o NonBlank(Tail(file))
         ELSE NonBlank(Tail(file))

\* lines 204 and 241: any(ln.strip() for ln in f)
AnyLine(file) == \E i \in 1..Len(file) : Strip(file[i], Whitespace) # <<>>

\* the line after the chosen one is deleted
DelAtNext(s, i) == SubSeq(s, 1, i) \o SubSeq(s, i + 2, Len(s))

\* line 110: del lines[chosen_index]
DelAt(s, i) == SubSeq(s, 1, i - 1) \o SubSeq(s, i + 1, Len(s))

\* ------------------------------------------------------------ file system
MediaPaths == { full_path(l) : l \in { t \in LineTexts : Strip(t, Whitespace) # <<>> } }
FileNames ==
    UNION { {p, backup_path(p), temp_output(p), LockPath(p)} : p \in MediaPaths }

Absent == "absent"
Contents == {Absent, "original", "encoded", "partial", "marker"}

\* the lists a run may start with: up to MaxLines different lines
Lists ==
    UNION { { l \in [1..n -> LineTexts] : \A i, j \in 1..n : l[i] = l[j] => i = j } :
            n \in 0..MaxLines }

\* the media paths the lines of a list resolve to
Listed(file) == { full_path(NonBlank(file)[i]) : i \in 1..Len(NonBlank(file)) }

Count(s, x) == Cardinality({ i \in 1..Len(s) : s[i] = x })

\* ------------------------------------------------------------------ state
VARIABLES
    input_exists,     \* os.path.exists(input_file)
    input_file,       \* the lines of the job list file
    fs,               \* file name -> content, Absent when no such file
    log_file,         \* the lines of the failure log
    list_file_lock,   \* threading.Lock of line 33: 0 or the holding worker
    flock,            \* fcntl.flock on the list file: 0 or the holding worker
    global_counter,   \* global_counter[0]
    mainpc,           \* position of main()
    pc,               \* position of each worker thread
    retry,            \* worker is in the second acquire call (line 198)
    lines,            \* acquire_next_job_from_list: lines
    idx,              \* acquire_next_job_from_list: idx of the for loop
    job_path,         \* worker: job_path, <<>> when None
    lock_path,        \* worker: lock_path, <<>> when None
    codec,            \* transcode_file: codec, <<>> when None
    \* history of the run, read by the properties only
    initial,          \* the list file and file system the run started with
    calls,            \* operations invoked for the current job, with their results
    outcome,          \* how transcode_file ended for the current job
    opened,           \* the list file as the worker read it under the lock
    snap,             \* the job's files and log lines when transcode_file began
    history           \* media path -> outcomes of its finished attempts

vars == << input_exists, input_file, fs, log_file, list_file_lock, flock,
           global_counter, mainpc, pc, retry, lines, idx, job_path, lock_path,
           codec, initial, calls, outcome, opened, snap, history >>

NoSnap == [orig |-> Absent, old |-> Absent, tmp |-> Absent, logged |-> 0]

InitFs(exist, orphan) ==
    [n \in FileNames |->
        IF n \in exist THEN "original"
        ELSE IF \E p \in orphan : n = LockPath(p) THEN "marker"
        ELSE Absent]

Init ==
    /\ input_exists \in BOOLEAN
    /\ input_file \in (IF input_exists THEN Lists ELSE {<<>>})
    /\ \E exist \in SUBSET Listed(input_file) : \E orphan \in SUBSET exist :
          fs = InitFs(exist, orphan)
    /\ log_file = <<>>
    /\ list_file_lock = 0
    /\ flock = 0
    /\ global_counter = 0
    /\ mainpc = "init"
    /\ pc = [w \in Workers |-> "unstarted"]
    /\ retry = [w \in Workers |-> FALSE]
    /\ lines = [w \in Workers |-> <<>>]
    /\ idx = [w \in Workers |-> 0]
    /\ job_path = [w \in Workers |-> <<>>]
    /\ lock_path = [w \in Workers |-> <<>>]
    /\ codec = [w \in Workers |-> <<>>]
    /\ initial = [list |-> input_file, fs |-> fs]
    /\ calls = [w \in Workers |-> {}]
    /\ outcome = [w \in Workers |-> "none"]
    /\ opened = [w \in Workers |-> <<>>]
    /\ snap = [w \in Workers |-> NoSnap]
    /\ history = [p \in MediaPaths |-> <<>>]

\* ------------------------------------------------------------------- main
\* lines 233-252: refuse a missing list, report an empty one, else start the
\* worker threads
main_start ==
    /\ mainpc = "init"
    /\ IF ~input_exists
       THEN mainpc' = "exit1" /\ pc' = pc
       ELSE IF ~AnyLine(input_file)
       THEN mainpc' = "nothing" /\ pc' = pc
       ELSE mainpc' = "joining" /\ pc' = [w \in Workers |-> "acquire"]
    /\ UNCHANGED << input_exists, input_file, fs, log_file, list_file_lock, flock,
                    global_counter, retry, lines, idx, job_path, lock_path, codec,
                    initial, calls, outcome, opened, snap, history >>

Finished(w) == pc[w] \in {"exited", "crashed"}

\* lines 254-257: join every thread
main_join ==
    /\ mainpc = "joining"
    /\ \A w \in Workers : Finished(w)
    /\ mainpc' = "complete"
    /\ UNCHANGED << input_exists, input_file, fs, log_file, list_file_lock, flock,
                    global_counter, pc, retry, lines, idx, job_path, lock_path,
                    codec, initial, calls, outcome, opened, snap, history >>

\* ------------------------------------------- acquire_next_job_from_list
\* where the worker goes when the call returns (None, None): line 196 after
\* the first call, line 201 after the second
AfterNone(w) == IF retry[w] THEN "recheck" ELSE "sleep"

\* lines 72-86: take both locks and read the lines
acquire_open(w) ==
    /\ pc[w] = "acquire"
    /\ IF ~input_exists
       THEN /\ pc' = [pc EXCEPT ![w] = AfterNone(w)]
            /\ UNCHANGED << list_file_lock, flock, lines, idx, opened >>
       ELSE /\ list_file_lock = 0
            /\ flock = 0
            /\ list_file_lock' = w
            /\ flock' = w
            /\ lines' = [lines EXCEPT ![w] = NonBlank(input_file)]
            /\ idx' = [idx EXCEPT ![w] = 1]
            /\ opened' = [opened EXCEPT ![w] = input_file]
            /\ pc' = [pc EXCEPT ![w] =
                        IF NonBlank(input_file) = <<>> THEN "empty" ELSE "scan"]
    /\ UNCHANGED << input_exists, input_file, fs, log_file, global_counter, mainpc,
                    retry, job_path, lock_path, codec, initial, calls,
                    outcome, snap, history >>

\* lines 80-85: nothing listed: truncate, unlock, return (None, None)
acquire_empty(w) ==
    /\ pc[w] = "empty"
    /\ input_file' = <<>>
    /\ list_file_lock' = 0
    /\ flock' = 0
    /\ lines' = [lines EXCEPT ![w] = <<>>]
    /\ idx' = [idx EXCEPT ![w] = 0]
    /\ opened' = [opened EXCEPT ![w] = <<>>]
    /\ pc' = [pc EXCEPT ![w] = AfterNone(w)]
    /\ UNCHANGED << input_exists, fs, log_file, global_counter, mainpc, retry,
                    job_path, lock_path, codec, initial, calls, outcome,
                    snap, history >>

\* os.open without O_EXCL: an existing marker is opened, not refused
make_item_lock_no_excl(path) == {"created", "oserror"}

\* lines 50-58: what os.open(O_CREAT | O_EXCL) can do on the marker of path
make_item_lock(path) ==
    IF fs[LockPath(path)] # Absent THEN {"exists"} ELSE {"created", "oserror"}

\* lines 93-102: one iteration of the for loop
acquire_scan(w) ==
    /\ pc[w] = "scan"
    /\ LET path == full_path(lines[w][idx[w]])
       IN \E r \in make_item_lock(path) :
            \/ /\ r = "created"
               /\ fs' = [fs EXCEPT ![LockPath(path)] = "marker"]
               /\ job_path' = [job_path EXCEPT ![w] = path]
               /\ lock_path' = [lock_path EXCEPT ![w] = LockPath(path)]
               /\ pc' = [pc EXCEPT ![w] = "rewrite"]
               /\ UNCHANGED << list_file_lock, flock, lines, idx, opened >>
            \/ /\ r = "exists"
               /\ idx' = [idx EXCEPT ![w] = idx[w] + 1]
               /\ pc' = [pc EXCEPT ![w] =
                           IF idx[w] + 1 > Len(lines[w]) THEN "nochoice" ELSE "scan"]
               /\ UNCHANGED << fs, job_path, lock_path, list_file_lock, flock, lines,
                               opened >>
            \/ /\ r = "oserror"
               \* not a FileExistsError: the with blocks unlock and the
               \* exception leaves worker()
               /\ list_file_lock' = 0
               /\ flock' = 0
               /\ lines' = [lines EXCEPT ![w] = <<>>]
               /\ idx' = [idx EXCEPT ![w] = 0]
               /\ opened' = [opened EXCEPT ![w] = <<>>]
               /\ pc' = [pc EXCEPT ![w] = "crashed"]
               /\ UNCHANGED << fs, job_path, lock_path >>
    /\ UNCHANGED << input_exists, input_file, log_file, global_counter, mainpc,
                    retry, codec, initial, calls, outcome, snap, history >>

\* the lines read are written back before the call returns (None, None)
acquire_none_rewrites(w) ==
    /\ pc[w] = "nochoice"
    /\ input_file' = lines[w]
    /\ list_file_lock' = 0
    /\ flock' = 0
    /\ lines' = [lines EXCEPT ![w] = <<>>]
    /\ idx' = [idx EXCEPT ![w] = 0]
    /\ opened' = [opened EXCEPT ![w] = <<>>]
    /\ pc' = [pc EXCEPT ![w] = AfterNone(w)]
    /\ UNCHANGED << input_exists, fs, log_file, global_counter, mainpc,
                    retry, job_path, lock_path, codec, initial, calls,
                    outcome, snap, history >>

\* lines 104-107: no marker could be created: unlock, return (None, None)
acquire_none(w) ==
    /\ pc[w] = "nochoice"
    /\ list_file_lock' = 0
    /\ flock' = 0
    /\ lines' = [lines EXCEPT ![w] = <<>>]
    /\ idx' = [idx EXCEPT ![w] = 0]
    /\ opened' = [opened EXCEPT ![w] = <<>>]
    /\ pc' = [pc EXCEPT ![w] = AfterNone(w)]
    /\ UNCHANGED << input_exists, input_file, fs, log_file, global_counter, mainpc,
                    retry, job_path, lock_path, codec, initial, calls,
                    outcome, snap, history >>

\* lines 109-118: delete the chosen line, write the rest back, unlock, return
acquire_rewrite(w) ==
    /\ pc[w] = "rewrite"
    /\ input_file' = DelAt(lines[w], idx[w])
    /\ list_file_lock' = 0
    /\ flock' = 0
    /\ lines' = [lines EXCEPT ![w] = <<>>]
    /\ idx' = [idx EXCEPT ![w] = 0]
    /\ opened' = [opened EXCEPT ![w] = <<>>]
    /\ retry' = [retry EXCEPT ![w] = FALSE]
    /\ pc' = [pc EXCEPT ![w] = "isfile"]
    /\ UNCHANGED << input_exists, fs, log_file, global_counter, mainpc, job_path,
                    lock_path, codec, initial, calls, outcome, snap, history >>

\* ----------------------------------------------------------------- worker
\* line 196: time.sleep(idle_wait), then the second call
worker_sleep(w) ==
    /\ pc[w] = "sleep"
    /\ retry' = [retry EXCEPT ![w] = TRUE]
    /\ pc' = [pc EXCEPT ![w] = "acquire"]
    /\ UNCHANGED << input_exists, input_file, fs, log_file, list_file_lock, flock,
                    global_counter, mainpc, lines, idx, job_path, lock_path, codec,
                    initial, calls, outcome, opened, snap, history >>

\* the worker leaves the loop without looking at the list
worker_recheck_exits(w) ==
    /\ pc[w] = "recheck"
    /\ list_file_lock = 0
    /\ retry' = [retry EXCEPT ![w] = FALSE]
    /\ pc' = [pc EXCEPT ![w] = "exited"]
    /\ UNCHANGED << input_exists, input_file, fs, log_file, list_file_lock, flock,
                    global_counter, mainpc, lines, idx, job_path, lock_path, codec,
                    initial, calls, outcome, opened, snap, history >>

\* lines 199-211: read the list under list_file_lock; leave the loop when no
\* line remains, else start over
worker_recheck(w) ==
    /\ pc[w] = "recheck"
    /\ list_file_lock = 0
    /\ retry' = [retry EXCEPT ![w] = FALSE]
    /\ pc' = [pc EXCEPT ![w] =
                IF input_exists /\ AnyLine(input_file) THEN "acquire" ELSE "exited"]
    /\ UNCHANGED << input_exists, input_file, fs, log_file, list_file_lock, flock,
                    global_counter, mainpc, lines, idx, job_path, lock_path, codec,
                    initial, calls, outcome, opened, snap, history >>

\* --------------------------------------------------------- transcode_file
\* os.rename(src, dst)
Rename(f, src, dst) == [f EXCEPT ![dst] = f[src], ![src] = Absent]

\* os.remove(name)
Remove(f, name) == [f EXCEPT ![name] = Absent]

\* line 151: os.rename(original_path, backup_path)
BackupRename(f, path) == Rename(f, path, backup_path(path))

\* line 170: os.rename(temp_output, original_path)
CommitRename(f, path) == Rename(f, temp_output(path), path)

\* line 171: os.remove(backup_path)
RemoveBackup(f, path) == Remove(f, backup_path(path))

\* the rollback deletes the backup instead of renaming it back
RestoreDeletes(f, path) == Remove(f, backup_path(path))

\* line 180: os.rename(backup_path, original_path)
Restore(f, path) == Rename(f, backup_path(path), path)

\* the temporary output is left behind
RemoveTempKeeps(f, path) == f

\* line 185: os.remove(temp_output)
RemoveTemp(f, path) == Remove(f, temp_output(path))

\* how the probe process can end on a file of the given content
ProbeResults(content) ==
    { [kind |-> "ok", stdout |-> s] :
        s \in (IF content = "encoded" THEN {EncodedStdout} ELSE ProbeStdouts) }
    \cup { [kind |-> "nonzero", stdout |-> <<>>],
           [kind |-> "oserror", stdout |-> <<>>] }

\* lines 35-48, for a probe that could be started: the trimmed, lower-cased
\* output, or None when it is empty or the probe exited non-zero
get_video_codec(res) ==
    IF res.kind = "ok"
    THEN Lower(Strip(res.stdout, Whitespace))
    ELSE <<>>

\* the membership test of line 137 inverted
DecideInverted(c) ==
    IF c = <<>> THEN "Failed"
    ELSE IF c \in inefficient_codecs THEN "Skipped"
    ELSE "transcode"

\* the test of line 134 left out
DecideNoEmptyCheck(c) ==
    IF c \notin inefficient_codecs THEN "Skipped" ELSE "transcode"

\* lines 134-139: what transcode_file does with the detected codec
Decide(c) ==
    IF c = <<>> THEN "Failed"
    ELSE IF c \notin inefficient_codecs THEN "Skipped"
    ELSE "transcode"

\* how the encoder can end, and the temporary output it leaves
EncodeResults(tmp) ==
    { [kind |-> "ok", tmp |-> "encoded"],
      [kind |-> "nonzero", tmp |-> tmp],
      [kind |-> "nonzero", tmp |-> "partial"],
      [kind |-> "oserror", tmp |-> tmp] }

Called(w, what) == calls' = [calls EXCEPT ![w] = calls[w] \cup what]

\* transcode_file returns: False goes to log_failure (line 220), True and an
\* exception go to the finally clause (line 223)
Ends(w, how) ==
    /\ outcome' = [outcome EXCEPT ![w] = how]
    /\ pc' = [pc EXCEPT ![w] = IF how = "Failed" THEN "log" ELSE "release"]

\* lines 127-131
transcode_isfile(w) ==
    /\ pc[w] = "isfile"
    /\ snap' = [snap EXCEPT ![w] =
                  [orig |-> fs[job_path[w]],
                   old |-> fs[backup_path(job_path[w])],
                   tmp |-> fs[temp_output(job_path[w])],
                   logged |-> Count(log_file, RelativePath(job_path[w]))]]
    /\ IF fs[job_path[w]] = Absent
       THEN Ends(w, "Failed")
       ELSE pc' = [pc EXCEPT ![w] = "probe"] /\ outcome' = outcome
    /\ UNCHANGED << input_exists, input_file, fs, log_file, list_file_lock, flock,
                    global_counter, mainpc, retry, lines, idx, job_path, lock_path,
                    codec, initial, calls, opened, history >>

\* lines 133-139
transcode_probe(w) ==
    /\ pc[w] = "probe"
    /\ \E res \in ProbeResults(fs[job_path[w]]) :
         /\ Called(w, {"probe_" \o res.kind})
         /\ IF res.kind = "oserror"
            THEN \* the probe could not be started: not a CalledProcessError
                 Ends(w, "Raised") /\ codec' = codec
            ELSE LET c == get_video_codec(res)
                 IN /\ codec' = [codec EXCEPT ![w] = c]
                    /\ IF Decide(c) = "transcode"
                       THEN pc' = [pc EXCEPT ![w] = "backup"] /\ outcome' = outcome
                       ELSE Ends(w, Decide(c))
    /\ UNCHANGED << input_exists, input_file, fs, log_file, list_file_lock, flock,
                    global_counter, mainpc, retry, lines, idx, job_path, lock_path,
                    initial, opened, snap, history >>

\* the return of line 154 left out: a failed backup rename goes on to encode
transcode_backup_goes_on(w) ==
    /\ pc[w] = "backup"
    /\ \/ /\ fs' = BackupRename(fs, job_path[w])
          /\ Called(w, {"backup_ok"})
       \/ /\ fs' = fs
          /\ Called(w, {"backup_failed"})
    /\ pc' = [pc EXCEPT ![w] = "encode"]
    /\ UNCHANGED << input_exists, input_file, log_file, list_file_lock, flock,
                    global_counter, mainpc, retry, lines, idx, job_path, lock_path,
                    codec, initial, outcome, opened, snap, history >>

\* lines 150-154
transcode_backup(w) ==
    /\ pc[w] = "backup"
    /\ \/ /\ fs' = BackupRename(fs, job_path[w])
          /\ Called(w, {"backup_ok"})
          /\ pc' = [pc EXCEPT ![w] = "encode"]
          /\ outcome' = outcome
       \/ /\ fs' = fs
          /\ Called(w, {"backup_failed"})
          /\ Ends(w, "Failed")
    /\ UNCHANGED << input_exists, input_file, log_file, list_file_lock, flock,
                    global_counter, mainpc, retry, lines, idx, job_path, lock_path,
                    codec, initial, opened, snap, history >>

\* lines 168-169 and the dispatch of the except clause of line 175
transcode_encode(w) ==
    /\ pc[w] = "encode"
    /\ \E res \in EncodeResults(fs[temp_output(job_path[w])]) :
         /\ Called(w, {"encode_" \o res.kind})
         /\ fs' = [fs EXCEPT ![temp_output(job_path[w])] = res.tmp]
         /\ IF res.kind = "oserror"
            THEN \* the encoder could not be started: not a CalledProcessError
                 Ends(w, "Raised")
            ELSE /\ pc' = [pc EXCEPT ![w] =
                             IF res.kind = "ok" THEN "commit" ELSE "rollback"]
                 /\ outcome' = outcome
    /\ UNCHANGED << input_exists, input_file, log_file, list_file_lock, flock,
                    global_counter, mainpc, retry, lines, idx, job_path, lock_path,
                    codec, initial, opened, snap, history >>

\* line 170: an OSError here is not caught by line 175
transcode_commit(w) ==
    /\ pc[w] = "commit"
    /\ \/ /\ fs' = CommitRename(fs, job_path[w])
          /\ Called(w, {"commit_ok"})
          /\ pc' = [pc EXCEPT ![w] = "rmbackup"]
          /\ outcome' = outcome
       \/ /\ fs' = fs
          /\ Called(w, {"commit_failed"})
          /\ Ends(w, "Raised")
    /\ UNCHANGED << input_exists, input_file, log_file, list_file_lock, flock,
                    global_counter, mainpc, retry, lines, idx, job_path, lock_path,
                    codec, initial, opened, snap, history >>

\* lines 171-173: an OSError here is not caught by line 175
transcode_remove_backup(w) ==
    /\ pc[w] = "rmbackup"
    /\ \/ /\ fs' = RemoveBackup(fs, job_path[w])
          /\ Called(w, {"rmbackup_ok"})
          /\ Ends(w, "Committed")
       \/ /\ fs' = fs
          /\ Called(w, {"rmbackup_failed"})
          /\ Ends(w, "Raised")
    /\ UNCHANGED << input_exists, input_file, log_file, list_file_lock, flock,
                    global_counter, mainpc, retry, lines, idx, job_path, lock_path,
                    codec, initial, opened, snap, history >>

\* lines 175-182: restore the original when the backup exists; a failure of
\* the rename is swallowed
transcode_rollback(w) ==
    /\ pc[w] = "rollback"
    /\ IF fs[backup_path(job_path[w])] # Absent
       THEN \/ /\ fs' = Restore(fs, job_path[w])
               /\ Called(w, {"rollback_ok"})
            \/ /\ fs' = fs
               /\ Called(w, {"rollback_failed"})
       ELSE fs' = fs /\ calls' = calls
    /\ pc' = [pc EXCEPT ![w] = "rmtemp"]
    /\ UNCHANGED << input_exists, input_file, log_file, list_file_lock, flock,
                    global_counter, mainpc, retry, lines, idx, job_path, lock_path,
                    codec, initial, outcome, opened, snap, history >>

\* lines 183-188: delete the temporary output when it exists, return False
transcode_cleanup(w) ==
    /\ pc[w] = "rmtemp"
    /\ IF fs[temp_output(job_path[w])] # Absent
       THEN fs' = RemoveTemp(fs, job_path[w]) /\ Called(w, {"rmtemp"})
       ELSE fs' = fs /\ calls' = calls
    /\ Ends(w, "Failed")
    /\ UNCHANGED << input_exists, input_file, log_file, list_file_lock, flock,
                    global_counter, mainpc, retry, lines, idx, job_path, lock_path,
                    codec, initial, opened, snap, history >>

\* ------------------------------------------------------- worker, continued
\* lines 120-125
log_failure(log, path) == Append(log, path)

\* the marker is left in place
release_item_lock_keeps(f, lock) == f

\* lines 60-65
release_item_lock(f, lock) ==
    IF lock # <<>> /\ f[lock] # Absent THEN Remove(f, lock) ELSE f

\* lines 215-220: transcode_file returned False
worker_log_failure(w) ==
    /\ pc[w] = "log"
    /\ log_file' = log_failure(log_file, RelativePath(job_path[w]))
    /\ pc' = [pc EXCEPT ![w] = "release"]
    /\ UNCHANGED << input_exists, input_file, fs, list_file_lock, flock,
                    global_counter, mainpc, retry, lines, idx, job_path, lock_path,
                    codec, initial, calls, outcome, opened, snap, history >>

\* lines 221-231: the finally clause; then the exception, if there was one,
\* leaves worker(), else the counter is bumped and the loop starts over
worker_release(w) ==
    /\ pc[w] = "release"
    /\ fs' = release_item_lock(fs, lock_path[w])
    /\ history' = [history EXCEPT ![job_path[w]] = Append(@, outcome[w])]
    /\ IF outcome[w] = "Raised"
       THEN pc' = [pc EXCEPT ![w] = "crashed"] /\ global_counter' = global_counter
       ELSE pc' = [pc EXCEPT ![w] = "acquire"] /\ global_counter' = global_counter + 1
    /\ job_path' = [job_path EXCEPT ![w] = <<>>]
    /\ lock_path' = [lock_path EXCEPT ![w] = <<>>]
    /\ codec' = [codec EXCEPT ![w] = <<>>]
    /\ calls' = [calls EXCEPT ![w] = {}]
    /\ outcome' = [outcome EXCEPT ![w] = "none"]
    /\ snap' = [snap EXCEPT ![w] = NoSnap]
    /\ UNCHANGED << input_exists, input_file, log_file, list_file_lock, flock,
                    mainpc, retry, lines, idx, initial, opened >>

\* ---------------------------------------------------------- specification
Next ==
    \/ main_start
    \/ main_join
    \/ \E w \in Workers : acquire_open(w)
    \/ \E w \in Workers : acquire_empty(w)
    \/ \E w \in Workers : acquire_scan(w)
    \/ \E w \in Workers : acquire_none(w)
    \/ \E w \in Workers : acquire_rewrite(w)
    \/ \E w \in Workers : worker_sleep(w)
    \/ \E w \in Workers : worker_recheck(w)
    \/ \E w \in Workers : transcode_isfile(w)
    \/ \E w \in Workers : transcode_probe(w)
    \/ \E w \in Workers : transcode_backup(w)
    \/ \E w \in Workers : transcode_encode(w)
    \/ \E w \in Workers : transcode_commit(w)
    \/ \E w \in Workers : transcode_remove_backup(w)
    \/ \E w \in Workers : transcode_rollback(w)
    \/ \E w \in Workers : transcode_cleanup(w)
    \/ \E w \in Workers : worker_log_failure(w)
    \/ \E w \in Workers : worker_release(w)

Spec == Init /\ [][Next]_vars

TypeOK ==
    /\ \A i \in 1..Len(input_file) : input_file[i] \in LineTexts
    /\ \A n \in FileNames : fs[n] \in Contents
    /\ list_file_lock \in {0} \cup Workers
    /\ flock = list_file_lock

\* ------------------------------------------------------------- properties
AllFinished == mainpc \in {"joining", "complete"} /\ \A w \in Workers : Finished(w)

Holding(w) == job_path[w] # <<>>

JobFiles(w) ==
    [orig |-> fs[job_path[w]],
     old |-> fs[backup_path(job_path[w])],
     tmp |-> fs[temp_output(job_path[w])]]

SnapFiles(w) == [orig |-> snap[w].orig, old |-> snap[w].old, tmp |-> snap[w].tmp]

\* lines the worker has appended to the failure log for its current job
LoggedForJob(w) == Count(log_file, RelativePath(job_path[w])) - snap[w].logged

\* the run started with lines that resolve to pairwise different paths
DistinctStart ==
    LET l == NonBlank(initial.list)
    IN  \A i, j \in 1..Len(l) : full_path(l[i]) = full_path(l[j]) => i = j

NotSucceeded(p) ==
    Cardinality({ i \in 1..Len(history[p]) : history[p][i] \notin {"Committed", "Skipped"} })

\* C1: when every worker of a run over distinct paths has left its loop, each
\* listed path has been passed to transcode_file exactly once and the list
\* file has no line left.
C1_EachPathOnce ==
    (DistinctStart /\ AllFinished) =>
        /\ \A p \in Listed(initial.list) : Len(history[p]) = 1
        /\ ~AnyLine(input_file)

\* C2: no two workers hold the same resolved path between the creation of
\* its marker and its release, the marker exists for as long as it is held,
\* and a worker that has lost the race for a line and moved on in its scan
\* has left the list file as it read it.
C2_OneHolderPerPath ==
    /\ \A v, w \in Workers :
         (v # w /\ Holding(v) /\ Holding(w)) => job_path[v] # job_path[w]
    /\ \A w \in Workers : Holding(w) => fs[lock_path[w]] = "marker"
    /\ \A w \in Workers :
         (pc[w] \in {"scan", "nochoice"}) =>
            /\ input_file = opened[w]
            /\ ~Holding(w)

\* a worker has lost the race for a path another worker holds and has moved
\* on to the next line
C2_Witness ==
    \E v, w \in Workers :
        /\ v # w
        /\ Holding(v)
        /\ pc[w] \in {"scan", "nochoice"}
        /\ idx[w] > 1
        /\ full_path(lines[w][idx[w] - 1]) = job_path[v]

C4_NoDataLoss ==
    \A p \in MediaPaths :
        initial.fs[p] = "original" =>
            \/ fs[p] = "original"
            \/ fs[backup_path(p)] = "original"
            \/ fs[p] = "encoded"

\* the encode failed and so did the rollback rename: the original is at the
\* backup path only
C4_Witness ==
    \E w \in Workers :
        /\ "rollback_failed" \in calls[w]
        /\ fs[job_path[w]] = Absent
        /\ fs[backup_path(job_path[w])] = "original"

\* C5: when the encode failed after the backup rename and the restore rename
\* did not fail, the finished job has its original bytes at the original
\* path, no backup and no temporary output.
C5_EncodeFailureRestores ==
    \A w \in Workers :
        ( /\ pc[w] = "release"
          /\ "backup_ok" \in calls[w]
          /\ calls[w] \cap {"encode_nonzero", "encode_oserror"} # {}
          /\ "rollback_failed" \notin calls[w] ) =>
            /\ fs[job_path[w]] = snap[w].orig
            /\ fs[backup_path(job_path[w])] = Absent
            /\ fs[temp_output(job_path[w])] = Absent

\* C6: when the encode succeeded, the finished job has the encoded content
\* at the original path, no backup, no temporary output, outcome Committed
\* and no line in the failure log.
C6_EncodeSuccessCommits ==
    \A w \in Workers :
        (pc[w] = "release" /\ "encode_ok" \in calls[w]) =>
            /\ fs[job_path[w]] = "encoded"
            /\ fs[backup_path(job_path[w])] = Absent
            /\ fs[temp_output(job_path[w])] = Absent
            /\ outcome[w] = "Committed"
            /\ LoggedForJob(w) = 0

\* C7: no worker leaves its loop through an exception.
C7_NoWorkerCrashes == \A w \in Workers : pc[w] # "crashed"

\* C8: when every worker has left its loop, the failure log holds, for each
\* path, one line per attempt that ended neither Committed nor Skipped, and
\* no other line.
C8_LogMatchesFailures ==
    AllFinished =>
        \A p \in MediaPaths : Count(log_file, RelativePath(p)) = NotSucceeded(p)

\* C9: a job whose detected codec is not in the inefficient set ends Skipped
\* with its files as they were, nothing invoked but the probe, and no line
\* appended to the failure log.
C9_SkipTouchesNothing ==
    \A w \in Workers :
        (codec[w] # <<>> /\ codec[w] \notin inefficient_codecs) =>
            /\ pc[w] = "release"
            /\ outcome[w] = "Skipped"
            /\ JobFiles(w) = SnapFiles(w)
            /\ calls[w] = {"probe_ok"}
            /\ LoggedForJob(w) = 0

\* an original file with an efficient codec has been skipped
C9_Witness ==
    \E w \in Workers :
        /\ pc[w] = "release"
        /\ outcome[w] = "Skipped"
        /\ fs[job_path[w]] = "original"
        /\ codec[w] = <<"h", "e", "v", "c">>

ProbeFailed(w) ==
    \/ "probe_nonzero" \in calls[w]
    \/ "probe_ok" \in calls[w] /\ codec[w] = <<>>

WithoutLine(s, k) == [i \in 1..(Len(s) - 1) |-> IF i < k THEN s[i] ELSE s[i + 1]]

\* the step in which acquire_next_job_from_list returns a job to worker w
Returns(w) == pc[w] = "rewrite" /\ pc'[w] = "isfile"

\* the line worker w is trying in its scan
Current(w) == full_path(lines[w][idx[w]])

\* the scan tries the lines it read in order from the first, moves on only
\* past a line whose marker exists, and takes the line whose marker it made
ScansInOrder(w) ==
    /\ (pc[w] # "scan" /\ pc'[w] = "scan") => idx'[w] = 1
    /\ (pc[w] = "scan" /\ idx'[w] = idx[w] + 1) => fs[LockPath(Current(w))] # Absent
    /\ (pc[w] = "scan" /\ pc'[w] = "rewrite") =>
          /\ fs[LockPath(Current(w))] = Absent
          /\ fs'[LockPath(Current(w))] = "marker"
          /\ idx'[w] = idx[w]
          /\ lines'[w] = lines[w]
          /\ job_path'[w] = Current(w)
          /\ lock_path'[w] = LockPath(Current(w))

PipelinePcs == {"isfile", "probe", "backup", "encode", "commit", "rmbackup",
                "rollback", "rmtemp", "log", "release"}

\* C12: the list file changes only in a step of a worker that holds both
\* locks of the list, and a path line leaves the file only in the step of
\* the worker that holds the marker it has just made for that line; a
\* worker that sleeps or handles a claimed job holds neither lock.
C12_ListChangesUnderLock ==
    /\ [](\A w \in Workers :
            pc[w] \in PipelinePcs \cup {"sleep"} => list_file_lock # w /\ flock # w)
    /\ [][input_file' # input_file =>
            \E w \in Workers :
               /\ list_file_lock = w
               /\ flock = w
               /\ pc[w] \in {"rewrite", "empty"}
               /\ pc'[w] # pc[w]
               /\ NonBlank(input_file') # NonBlank(input_file) =>
                     /\ pc[w] = "rewrite"
                     /\ fs[LockPath(job_path[w])] = "marker"
                     /\ \E k \in 1..Len(NonBlank(input_file)) :
                           /\ full_path(NonBlank(input_file)[k]) = job_path[w]
                           /\ NonBlank(input_file') =
                                 WithoutLine(NonBlank(input_file), k)]_vars

\* a worker is about to take its line out of the file, under the lock, while
\* another worker sleeps or handles a job
C12_Witness ==
    \E v, w \in Workers :
        /\ pc[w] = "rewrite" /\ flock = w /\ AnyLine(input_file)
        /\ v # w /\ pc[v] \in PipelinePcs \cup {"sleep"}

\* C13: a worker is past the "no work left" exit only while the list file
\* has no non-blank line; it takes that exit only from the check of lines
\* 201-207, and a call that found nothing claimable, or a check that found
\* lines, sends it on to sleep, to the check or to a new call.
C13_StopsOnlyOnEmptyList ==
    /\ [](\A w \in Workers : pc[w] = "exited" => ~AnyLine(input_file))
    /\ [][\A w \in Workers :
            /\ (pc[w] # "exited" /\ pc'[w] = "exited") =>
                  pc[w] = "recheck" /\ ~AnyLine(input_file)
            /\ (pc[w] = "nochoice" /\ pc'[w] # "nochoice") =>
                  pc'[w] = (IF retry[w] THEN "recheck" ELSE "sleep")
            /\ (pc[w] = "sleep" /\ pc'[w] # "sleep") => pc'[w] = "acquire"
            /\ (pc[w] = "recheck" /\ pc'[w] # "recheck" /\ AnyLine(input_file)) =>
                  pc'[w] = "acquire"]_vars

\* a worker found nothing claimable in both calls while a line remains, and
\* is at the check that sends it round the loop again
C13_Witness ==
    \E w \in Workers : pc[w] = "recheck" /\ AnyLine(input_file)

\* every step worker w can take
WorkerStep(w) ==
    \/ acquire_open(w) \/ acquire_empty(w) \/ acquire_scan(w) \/ acquire_none(w)
    \/ acquire_rewrite(w) \/ worker_sleep(w) \/ worker_recheck(w)
    \/ transcode_isfile(w) \/ transcode_probe(w) \/ transcode_backup(w)
    \/ transcode_encode(w) \/ transcode_commit(w) \/ transcode_remove_backup(w)
    \/ transcode_rollback(w) \/ transcode_cleanup(w) \/ worker_log_failure(w)
    \/ worker_release(w)

\* the run under a fair scheduler: main and every thread that can take a
\* step eventually takes one; every probe and encode invocation returns
FairSpec ==
    /\ Spec
    /\ WF_vars(main_start)
    /\ WF_vars(main_join)
    /\ \A w \in Workers : WF_vars(WorkerStep(w))

\* the run started with no marker in place
NoInitialMarker == \A p \in MediaPaths : initial.fs[LockPath(p)] = Absent

\* C14: a run started with distinct listed paths and no marker reaches the
\* state in which every worker has left through the empty-list exit and
\* main has joined them all; and no worker is past that exit while it
\* holds a job.
C14_PoolTerminates ==
    /\ (input_exists /\ AnyLine(initial.list) /\ DistinctStart /\ NoInitialMarker) =>
          <>(mainpc = "complete" /\ \A w \in Workers : pc[w] = "exited")
    /\ [](\A w \in Workers : pc[w] = "exited" => ~Holding(w))

\* C15: a call that was refused every line it read holds no job, has left
\* the list file as it read it, and none of its steps, from the refusals to
\* the return of (None, None), creates or removes a file or changes the list.
C15_NothingClaimableChangesNothing ==
    /\ [](\A w \in Workers :
            pc[w] = "nochoice" =>
               /\ input_file = opened[w]
               /\ idx[w] = Len(lines[w]) + 1
               /\ job_path[w] = <<>>
               /\ lock_path[w] = <<>>)
    /\ [][\A w \in Workers :
            ( \/ pc[w] = "scan" /\ idx'[w] = idx[w] + 1
              \/ pc[w] = "nochoice" /\ pc'[w] # "nochoice" ) =>
               /\ fs' = fs
               /\ input_file' = input_file
               /\ job_path'[w] = <<>>
               /\ pc[w] = "nochoice" => pc'[w] \in {"sleep", "recheck"}]_vars

\* a call has been refused both lines of the file and is about to return
\* (None, None)
C15_Witness ==
    \E w \in Workers : pc[w] = "nochoice" /\ idx[w] = 3 /\ Len(input_file) = 2

OrphanAt(p) == initial.fs[LockPath(p)] = "marker"

\* how many lines of the file resolve to p
LinesFor(file, p) ==
    Cardinality({ i \in 1..Len(NonBlank(file)) : full_path(NonBlank(file)[i]) = p })

\* C18: a listed path whose marker was in place when the run started is never
\* a worker's job and never passed to transcode_file; its lines stay in the
\* list, its marker stays, and its file is not touched.
C18_OrphanNeverClaimed ==
    \A p \in MediaPaths :
        OrphanAt(p) =>
            /\ \A w \in Workers : job_path[w] # p
            /\ history[p] = <<>>
            /\ LinesFor(input_file, p) = LinesFor(initial.list, p)
            /\ LinesFor(input_file, p) > 0
            /\ fs[LockPath(p)] = "marker"
            /\ fs[p] = initial.fs[p]

\* the other path of the list has been handled and a worker, refused the
\* orphaned line in both calls, is at the check of lines 201-207
C18_Witness ==
    \E p, q \in MediaPaths : \E w \in Workers :
        /\ OrphanAt(p)
        /\ Len(history[q]) > 0
        /\ pc[w] = "recheck"

\* C19: in a run started with distinct listed paths and no marker, whenever
\* no worker holds the list lock no path that is still a line of the list
\* has a marker; no call is refused a line because its marker exists (a scan
\* never moves past its first line) and no call ends with lines left and
\* nothing claimed.
C19_ListedPathsAreUnmarked ==
    (DistinctStart /\ NoInitialMarker) =>
        /\ (flock = 0 /\ list_file_lock = 0) =>
              \A p \in Listed(input_file) : fs[LockPath(p)] = Absent
        /\ \A w \in Workers :
              /\ pc[w] = "scan" => idx[w] = 1
              /\ pc[w] # "nochoice"

\* the list lock is free, one worker holds a marker and its job, and the
\* list still has a line for the other worker
C19_Witness ==
    /\ DistinctStart
    /\ NoInitialMarker
    /\ flock = 0
    /\ list_file_lock = 0
    /\ AnyLine(input_file)
    /\ \E w \in Workers : Holding(w) /\ fs[LockPath(job_path[w])] = "marker"

\* the run started with a list file in which some listed path has its marker
OrphanStart == input_exists /\ \E p \in Listed(initial.list) : OrphanAt(p)

\* C20: in a run started with a listed path whose marker is in place, no
\* worker thread ever ends and main never gets past its joins.
C20_PoolNeverFinishes ==
    OrphanStart => (mainpc # "complete" /\ \A w \in Workers : ~Finished(w))

====
